---- MODULE Spec2Model ----
(***************************************************************************)
(* Field extraction of the document service: the schema set held by the    *)
(* AWSService, the block list returned by the analysis call, the four      *)
(* lookup strategies of ReceiptParser, Parse and extractInfo, and the      *)
(* request handler that calls them; two extraction passes running at once; *)
(* and the process around them: the service construction, ListenAndServe   *)
(* and the graceful shutdown.                                              *)
(*                                                                         *)
(* A Go string is a sequence of one-character strings, "" being <<>>.  A   *)
(* Go pointer field is a sequence of length 0 when nil and of length 1,    *)
(* holding the pointee, otherwise.                                         *)
(***************************************************************************)
EXTENDS Integers, Sequences, FiniteSets, TLC

VARIABLES schemas, pc, docType, blocks, values, result, response,
          passes,
          config, healthy, ready, httpServer, server, stopCh, main

\* the process: its configuration, the two probe flags, the server returned
\* by ListenAndServe, the listener, the stop channel, the position of main
serverVars == <<config, healthy, ready, httpServer, server, stopCh, main>>

vars == <<schemas, pc, docType, blocks, values, result, response, passes, serverVars>>

\* Largest number of blocks in one analysis result.
MaxBlocks == 4

-----------------------------------------------------------------------------
\* Pointers

Nil == <<>>

Some(x) == <<x>>

IsNil(p) == Len(p) = 0

Deref(p) == p[1]

-----------------------------------------------------------------------------
\* Strings

EmptyString == <<>>

S_k == <<"k">>

S_v == <<"v">>

S_w == <<"w">>

S_u == <<"u">>

\* strings.Contains(s, sub)
Contains(s, sub) ==
    \E i \in 0..(Len(s) - Len(sub)) : SubSeq(s, i + 1, i + Len(sub)) = sub

\* position of the first ":" of s at or after i, 0 when there is none
RECURSIVE IndexColon(_, _)
IndexColon(s, i) ==
    IF i > Len(s) THEN 0
    ELSE IF s[i] = ":" THEN i
    ELSE IndexColon(s, i + 1)

\* strings.SplitN(s, ":", 2)
SplitN2(s) ==
    LET c == IndexColon(s, 1)
    IN  IF c = 0 THEN <<s>>
        ELSE <<SubSeq(s, 1, c - 1), SubSeq(s, c + 1, Len(s))>>

\* unicode.IsSpace on the characters a string of this module can hold (up to
\* U+00FF): tab, line feed, vertical tab, form feed, carriage return, space,
\* next line (U+0085) and no-break space (U+00A0)
WhiteSpace == {"\t", "\n", "", "\f", "\r", " ", "", " "}

RECURSIVE TrimLeft(_)
TrimLeft(s) ==
    IF Len(s) > 0 /\ s[1] \in WhiteSpace THEN TrimLeft(Tail(s)) ELSE s

RECURSIVE TrimRight(_)
TrimRight(s) ==
    IF Len(s) > 0 /\ s[Len(s)] \in WhiteSpace
    THEN TrimRight(SubSeq(s, 1, Len(s) - 1))
    ELSE s

\* strings.TrimSpace(s)
TrimSpace(s) == TrimRight(TrimLeft(s))

-----------------------------------------------------------------------------
\* int32, the type of the row and column indexes

MaxInt32 == 2147483647

MinInt32 == -MaxInt32 - 1

\* x + 1 in int32: the sum wraps around at the largest value
Int32Inc(x) == IF x = MaxInt32 THEN MinInt32 ELSE x + 1

-----------------------------------------------------------------------------
\* Blocks (types.Block of the analysis SDK, the fields the parser reads)

Rel(t, ids) == [Type |-> t, Ids |-> ids]

Block(bt, text, ets, rels, id, row, col) ==
    [BlockType |-> bt, Text |-> text, EntityTypes |-> ets,
     Relationships |-> rels, Id |-> id, RowIndex |-> row, ColumnIndex |-> col]

Line(text, id) == Block("LINE", text, <<>>, <<>>, id, Nil, Nil)

Cell(text, row, col) == Block("CELL", text, <<>>, <<>>, Nil, row, col)

KeyValue(ets, text, rels, id) == Block("KEY_VALUE_SET", text, ets, rels, id, Nil, Nil)

\* Blocks of documents made of text lines.
LinePool ==
    { Line(Some(S_k), Some("a")),
      Line(Some(S_v), Some("b")),
      Line(Some(<<"k", ":", "\t", "v", ":", "w", "\n">>), Nil),
      Line(Nil, Some("b")),
      Cell(Some(<<"k", ":", "u">>), Nil, Nil),
      Line(Some(<<"u", ":", "w">>), Nil),
      Line(Some(<<"k", ":", " ">>), Nil) }

\* Blocks of documents made of form fields.
KVPool ==
    { KeyValue(<<"KEY">>, Some(S_k),
               <<Rel("CHILD", <<"c">>), Rel("VALUE", <<"x", "b">>)>>, Some("k1")),
      KeyValue(<<"KEY">>, Some(S_k), <<>>, Some("k2")),
      KeyValue(<<"KEY">>, Some(S_k), <<Rel("VALUE", <<"c">>)>>, Some("k3")),
      KeyValue(<<"VALUE", "KEY">>, Some(S_k), <<Rel("VALUE", <<"c">>)>>, Nil),
      KeyValue(<<"VALUE">>, Some(S_w), <<>>, Some("c")),
      Line(Some(S_v), Some("b")),
      Line(Nil, Some("b")) }

\* Blocks of documents made of table cells.
CellPool ==
    { Cell(Some(S_k), Some(1), Some(1)),
      Cell(Some(S_v), Some(1), Some(2)),
      Cell(Nil, Some(1), Some(2)),
      Cell(Some(S_w), Some(2), Some(2)),
      Cell(Some(<<"u", "k">>), Some(2), Nil),
      Cell(Some(<<"u", "k">>), Some(2), Some(1)),
      Block("LINE", Some(S_u), <<>>, <<>>, Nil, Some(1), Some(2)) }

SeqsUpTo(P, n) == UNION { [1..k -> P] : k \in 0..n }

\* The analysis results a request can bring.
Documents == UNION { SeqsUpTo(P, MaxBlocks) : P \in {LinePool, KVPool, CellPool} }

-----------------------------------------------------------------------------
\* Schemas

FieldStrategy(key, strategy) == [Key |-> key, Strategy |-> strategy]

DocumentSchema(t, fields) == [Type |-> t, Fields |-> fields]

SchemaSetA ==
    [ d \in {"receipt", "invoice"} |->
        IF d = "receipt"
        THEN DocumentSchema(d, [ f \in {"total", "date"} |->
                 IF f = "total" THEN FieldStrategy(S_k, "keyValueSet")
                 ELSE FieldStrategy(S_k, "nextLine") ])
        ELSE DocumentSchema(d, [ f \in {"customer", "qty", "note"} |->
                 IF f = "customer" THEN FieldStrategy(S_k, "sameLine")
                 ELSE IF f = "qty" THEN FieldStrategy(S_k, "table")
                 ELSE FieldStrategy(S_k, "regex") ]) ]

SchemaSetB ==
    [ d \in {"invoice"} |->
        DocumentSchema(d, [ f \in {"ref", "memo"} |->
                 IF f = "ref" THEN FieldStrategy(S_v, "nextLine")
                 ELSE FieldStrategy(S_k, "sameLine") ]) ]

\* The contents the schema file can have.
SchemaSets == {SchemaSetA, SchemaSetB}

\* The document types a request can name.
DocTypes == {"receipt", "invoice", "unknown"}

-----------------------------------------------------------------------------
\* ReceiptParser: the lookup strategies

RECURSIVE findBlockByIdFrom(_, _, _)
findBlockByIdFrom(bs, id, i) ==
    IF i > Len(bs) THEN Nil
    ELSE IF ~IsNil(bs[i].Id) /\ Deref(bs[i].Id) = id THEN Some(bs[i])
    ELSE findBlockByIdFrom(bs, id, i + 1)

\* the first block whose Id is id, nil when there is none
findBlockById(bs, id) == findBlockByIdFrom(bs, id, 1)

\* the loop over relationship.Ids: the text returned, nil when the loop ends
RECURSIVE valueOfIds(_, _, _)
valueOfIds(bs, ids, j) ==
    IF j > Len(ids) THEN Nil
    ELSE LET valueBlock == findBlockById(bs, ids[j])
         IN  IF ~IsNil(valueBlock) /\ ~IsNil(Deref(valueBlock).Text)
             THEN Some(Deref(Deref(valueBlock).Text))
             ELSE valueOfIds(bs, ids, j + 1)

\* valueOfRelationships following every relationship, whatever its type
RECURSIVE valueOfRelationships_anyType(_, _, _)
valueOfRelationships_anyType(bs, rels, r) ==
    IF r > Len(rels) THEN Nil
    ELSE LET v == valueOfIds(bs, rels[r].Ids, 1)
         IN  IF ~IsNil(v) THEN v ELSE valueOfRelationships_anyType(bs, rels, r + 1)

\* the loop over block.Relationships: the text returned, nil when the loop ends
RECURSIVE valueOfRelationships(_, _, _)
valueOfRelationships(bs, rels, r) ==
    IF r > Len(rels) THEN Nil
    ELSE LET v == IF rels[r].Type = "VALUE" THEN valueOfIds(bs, rels[r].Ids, 1) ELSE Nil
         IN  IF ~IsNil(v) THEN v ELSE valueOfRelationships(bs, rels, r + 1)

\* the condition under which findKeyValueSet follows the relationships of a block
isKeyBlock(b, key) ==
    /\ b.BlockType = "KEY_VALUE_SET"
    /\ Len(b.EntityTypes) > 0
    /\ b.EntityTypes[1] = "KEY"
    /\ ~IsNil(b.Text)
    /\ Deref(b.Text) = key

\* findKeyValueSet returning after the first key block that matches
RECURSIVE findKeyValueSetFrom_firstMatch(_, _, _)
findKeyValueSetFrom_firstMatch(bs, key, i) ==
    IF i > Len(bs) THEN EmptyString
    ELSE IF isKeyBlock(bs[i], key)
         THEN LET v == valueOfRelationships(bs, bs[i].Relationships, 1)
              IN  IF ~IsNil(v) THEN Deref(v) ELSE EmptyString
         ELSE findKeyValueSetFrom_firstMatch(bs, key, i + 1)

RECURSIVE findKeyValueSetFrom(_, _, _)
findKeyValueSetFrom(bs, key, i) ==
    IF i > Len(bs) THEN EmptyString
    ELSE LET v == IF isKeyBlock(bs[i], key)
                  THEN valueOfRelationships(bs, bs[i].Relationships, 1)
                  ELSE Nil
         IN  IF ~IsNil(v) THEN Deref(v) ELSE findKeyValueSetFrom(bs, key, i + 1)

findKeyValueSet(bs, key) == findKeyValueSetFrom(bs, key, 1)

\* findNextLine without the test of the type of the next block
RECURSIVE findNextLineFrom_anyFollower(_, _, _)
findNextLineFrom_anyFollower(bs, key, i) ==
    IF i > Len(bs) THEN EmptyString
    ELSE IF /\ bs[i].BlockType = "LINE"
            /\ ~IsNil(bs[i].Text)
            /\ Deref(bs[i].Text) = key
            /\ i + 1 <= Len(bs)
            /\ ~IsNil(bs[i + 1].Text)
         THEN Deref(bs[i + 1].Text)
         ELSE findNextLineFrom_anyFollower(bs, key, i + 1)

RECURSIVE findNextLineFrom(_, _, _)
findNextLineFrom(bs, key, i) ==
    IF i > Len(bs) THEN EmptyString
    ELSE IF /\ bs[i].BlockType = "LINE"
            /\ ~IsNil(bs[i].Text)
            /\ Deref(bs[i].Text) = key
            /\ i + 1 <= Len(bs)
            /\ bs[i + 1].BlockType = "LINE"
            /\ ~IsNil(bs[i + 1].Text)
         THEN Deref(bs[i + 1].Text)
         ELSE findNextLineFrom(bs, key, i + 1)

findNextLine(bs, key) == findNextLineFrom(bs, key, 1)

\* findSameLine returning after the first line that contains the key
RECURSIVE findSameLineFrom_firstMatch(_, _, _)
findSameLineFrom_firstMatch(bs, key, i) ==
    IF i > Len(bs) THEN EmptyString
    ELSE IF /\ bs[i].BlockType = "LINE"
            /\ ~IsNil(bs[i].Text)
            /\ Contains(Deref(bs[i].Text), key)
         THEN IF Len(SplitN2(Deref(bs[i].Text))) = 2
              THEN TrimSpace(SplitN2(Deref(bs[i].Text))[2])
              ELSE EmptyString
         ELSE findSameLineFrom_firstMatch(bs, key, i + 1)

RECURSIVE findSameLineFrom(_, _, _)
findSameLineFrom(bs, key, i) ==
    IF i > Len(bs) THEN EmptyString
    ELSE IF /\ bs[i].BlockType = "LINE"
            /\ ~IsNil(bs[i].Text)
            /\ Contains(Deref(bs[i].Text), key)
            /\ Len(SplitN2(Deref(bs[i].Text))) = 2
         THEN TrimSpace(SplitN2(Deref(bs[i].Text))[2])
         ELSE findSameLineFrom(bs, key, i + 1)

findSameLine(bs, key) == findSameLineFrom(bs, key, 1)

\* getValueFromNextCell looking in the column of the key cell itself
RECURSIVE getValueFromNextCellFrom_sameColumn(_, _, _, _)
getValueFromNextCellFrom_sameColumn(bs, rowIndex, columnIndex, i) ==
    IF i > Len(bs) THEN EmptyString
    ELSE IF /\ bs[i].BlockType = "CELL"
            /\ ~IsNil(bs[i].RowIndex) /\ Deref(bs[i].RowIndex) = rowIndex
            /\ ~IsNil(bs[i].ColumnIndex) /\ Deref(bs[i].ColumnIndex) = columnIndex
            /\ ~IsNil(bs[i].Text)
         THEN Deref(bs[i].Text)
         ELSE getValueFromNextCellFrom_sameColumn(bs, rowIndex, columnIndex, i + 1)

RECURSIVE getValueFromNextCellFrom(_, _, _, _)
getValueFromNextCellFrom(bs, rowIndex, columnIndex, i) ==
    IF i > Len(bs) THEN EmptyString
    ELSE IF /\ bs[i].BlockType = "CELL"
            /\ ~IsNil(bs[i].RowIndex) /\ Deref(bs[i].RowIndex) = rowIndex
            /\ ~IsNil(bs[i].ColumnIndex) /\ Deref(bs[i].ColumnIndex) = Int32Inc(columnIndex)
            /\ ~IsNil(bs[i].Text)
         THEN Deref(bs[i].Text)
         ELSE getValueFromNextCellFrom(bs, rowIndex, columnIndex, i + 1)

getValueFromNextCell(bs, rowIndex, columnIndex) ==
    getValueFromNextCellFrom(bs, rowIndex, columnIndex, 1)

RECURSIVE findInTableFrom(_, _, _)
findInTableFrom(bs, key, i) ==
    IF i > Len(bs) THEN EmptyString
    ELSE IF /\ bs[i].BlockType = "CELL"
            /\ ~IsNil(bs[i].Text)
            /\ Contains(Deref(bs[i].Text), key)
            /\ ~IsNil(bs[i].RowIndex)
            /\ ~IsNil(bs[i].ColumnIndex)
         THEN getValueFromNextCell(bs, Deref(bs[i].RowIndex), Deref(bs[i].ColumnIndex))
         ELSE findInTableFrom(bs, key, i + 1)

findInTable(bs, key) == findInTableFrom(bs, key, 1)

findFieldValue(bs, strategy) ==
    CASE strategy.Strategy = "keyValueSet" -> findKeyValueSet(bs, strategy.Key)
      [] strategy.Strategy = "nextLine"    -> findNextLine(bs, strategy.Key)
      [] strategy.Strategy = "sameLine"    -> findSameLine(bs, strategy.Key)
      [] strategy.Strategy = "table"       -> findInTable(bs, strategy.Key)
      [] OTHER                             -> EmptyString

-----------------------------------------------------------------------------
\* ReceiptParser.Parse and AWSService.extractInfo

\* make(ExtractedInfo)
EmptyInfo == [f \in {} |-> EmptyString]

MapPut(m, k, v) == [x \in (DOMAIN m) \cup {k} |-> IF x = k THEN v ELSE m[x]]

\* the orders in which a range over a map with these keys can visit them
IterationOrders(keys) ==
    { o \in [1..Cardinality(keys) -> keys] :
        \A i, j \in 1..Cardinality(keys) : i # j => o[i] # o[j] }

\* the iteration storing a value only while the mapping is still empty
ParseField_firstOnly(bs, schema, field, extractedInfo) ==
    LET value == findFieldValue(bs, schema.Fields[field])
    IN  IF value # EmptyString /\ DOMAIN extractedInfo = {}
        THEN MapPut(extractedInfo, field, value)
        ELSE extractedInfo

\* the iteration storing the value whether or not it is empty
ParseField_storeEmpty(bs, schema, field, extractedInfo) ==
    MapPut(extractedInfo, field, findFieldValue(bs, schema.Fields[field]))

\* one iteration of the loop of Parse
ParseField(bs, schema, field, extractedInfo) ==
    LET value == findFieldValue(bs, schema.Fields[field])
    IN  IF value # EmptyString THEN MapPut(extractedInfo, field, value) ELSE extractedInfo

KnownStrategies == {"keyValueSet", "nextLine", "sameLine", "table"}

\* the loop of Parse ending at the first field whose strategy is not known
RECURSIVE ParseFrom_stopAtUnknown(_, _, _, _, _)
ParseFrom_stopAtUnknown(bs, schema, order, n, extractedInfo) ==
    IF n > Len(order) THEN extractedInfo
    ELSE IF schema.Fields[order[n]].Strategy \notin KnownStrategies THEN extractedInfo
    ELSE ParseFrom_stopAtUnknown(bs, schema, order, n + 1,
                                 ParseField(bs, schema, order[n], extractedInfo))

\* the loop of Parse ending at the first field that resolves to nothing
RECURSIVE ParseFrom_stopAtMiss(_, _, _, _, _)
ParseFrom_stopAtMiss(bs, schema, order, n, extractedInfo) ==
    IF n > Len(order) THEN extractedInfo
    ELSE IF findFieldValue(bs, schema.Fields[order[n]]) = EmptyString THEN extractedInfo
    ELSE ParseFrom_stopAtMiss(bs, schema, order, n + 1,
                              ParseField(bs, schema, order[n], extractedInfo))

RECURSIVE ParseFrom(_, _, _, _, _)
ParseFrom(bs, schema, order, n, extractedInfo) ==
    IF n > Len(order) THEN extractedInfo
    ELSE ParseFrom(bs, schema, order, n + 1, ParseField(bs, schema, order[n], extractedInfo))

\* Parse, the range over schema.Fields visiting the fields in this order
Parse(bs, schema, order) == ParseFrom(bs, schema, order, 1, EmptyInfo)

NoError == "nil"

ErrSchemaNotFound == "schema not found for document type"

ErrNothingExtracted == "no information could be extracted from the document"

\* extractInfo reading the schema without the test of the lookup
extractInfo_zeroSchema(ss, bs, dt, order) ==
    LET extractedInfo == IF dt \in DOMAIN ss THEN Parse(bs, ss[dt], order) ELSE EmptyInfo
    IN  IF Cardinality(DOMAIN extractedInfo) = 0
        THEN [info |-> Nil, err |-> ErrNothingExtracted]
        ELSE [info |-> Some(extractedInfo), err |-> NoError]

\* extractInfo without the test of the size of the mapping
extractInfo_noEmptyCheck(ss, bs, dt, order) ==
    IF dt \notin DOMAIN ss
    THEN [info |-> Nil, err |-> ErrSchemaNotFound]
    ELSE [info |-> Some(Parse(bs, ss[dt], order)), err |-> NoError]

extractInfo(ss, bs, dt, order) ==
    IF dt \notin DOMAIN ss
    THEN [info |-> Nil, err |-> ErrSchemaNotFound]
    ELSE LET extractedInfo == Parse(bs, ss[dt], order)
         IN  IF Cardinality(DOMAIN extractedInfo) = 0
             THEN [info |-> Nil, err |-> ErrNothingExtracted]
             ELSE [info |-> Some(extractedInfo), err |-> NoError]

\* the value findFieldValue returns for each field of the schema of dt
FieldValues(ss, bs, dt) ==
    IF dt \notin DOMAIN ss THEN EmptyInfo
    ELSE [f \in DOMAIN ss[dt].Fields |-> findFieldValue(bs, ss[dt].Fields[f])]

OrdersOf(ss, dt) ==
    IF dt \notin DOMAIN ss THEN {<<>>} ELSE IterationOrders(DOMAIN ss[dt].Fields)

-----------------------------------------------------------------------------
\* The process the requests are served by

\* the flags of main: port and level, unhealthy and unready
Configs ==
    [Unhealthy : BOOLEAN, Unready : BOOLEAN, Port : {"0", "80", "8080"},
     Level : {"debug", "info"}]

DefaultConfig == [Unhealthy |-> FALSE, Unready |-> FALSE, Port |-> "80", Level |-> "info"]

\* the process after ListenAndServe returned under the default flags, main
\* waiting in Graceful for the stop signal
Serving ==
    /\ config = DefaultConfig
    /\ healthy = 1
    /\ ready = 1
    /\ httpServer = Some("app")
    /\ server = "listening"
    /\ stopCh = "open"
    /\ main = "Graceful"

\* the requests the server handles at once
Handlers == {"h1", "h2"}

\* a handler that has not called extractInfo
IdlePass ==
    [pc |-> "idle", docType |-> "", blocks |-> <<>>, parser |-> Nil, pending |-> {},
     extractedInfo |-> EmptyInfo, result |-> [info |-> Nil, err |-> NoError]]

-----------------------------------------------------------------------------
\* The service: NewAWSService loads the schemas, testTextractorHandler serves
\* one request

Init ==
    /\ schemas \in SchemaSets
    /\ pc = "idle"
    /\ docType = ""
    /\ blocks = <<>>
    /\ values = EmptyInfo
    /\ result = [info |-> Nil, err |-> NoError]
    /\ response = Nil
    /\ passes = [h \in Handlers |-> IdlePass]
    /\ Serving

NoData == [kind |-> "none", rawResult |-> <<>>, extractedInfo |-> EmptyInfo]

\* the request has no file, or names no document type
RejectRequest ==
    /\ pc = "idle"
    /\ pc' = "rejected"
    /\ response' = Some([Status |-> 400, Success |-> FALSE, Data |-> NoData])
    /\ UNCHANGED <<schemas, docType, blocks, values, result, passes, serverVars>>

\* the analysis call fails
AnalyzeFailed ==
    /\ pc = "idle"
    /\ \E dt \in DocTypes : docType' = dt
    /\ pc' = "failed"
    /\ response' = Some([Status |-> 500, Success |-> FALSE, Data |-> NoData])
    /\ UNCHANGED <<schemas, blocks, values, result, passes, serverVars>>

\* the analysis call returns a block list
Analyze ==
    /\ pc = "idle"
    /\ \E dt \in DocTypes : docType' = dt
    /\ \E bs \in Documents : blocks' = bs
    /\ pc' = "analyzed"
    /\ UNCHANGED <<schemas, values, result, response, passes, serverVars>>

\* the failure response without the raw analysis result
responseOf_noRawResult(res, bs) ==
    IF res.err # NoError
    THEN Some([Status |-> 500, Success |-> FALSE, Data |-> NoData])
    ELSE Some([Status |-> 200, Success |-> TRUE,
               Data |-> [kind |-> "extractedInfo", rawResult |-> <<>>,
                         extractedInfo |-> Deref(res.info)]])

\* the BaseResponse the handler builds from the outcome of extractInfo
responseOf(res, bs) ==
    IF res.err # NoError
    THEN Some([Status |-> 500, Success |-> FALSE,
               Data |-> [kind |-> "rawResult", rawResult |-> bs,
                         extractedInfo |-> EmptyInfo]])
    ELSE Some([Status |-> 200, Success |-> TRUE,
               Data |-> [kind |-> "extractedInfo", rawResult |-> <<>>,
                         extractedInfo |-> Deref(res.info)]])

\* extractInfo on the block list, and the response built from its outcome
ExtractionPass ==
    /\ \E order \in OrdersOf(schemas, docType) :
          result' = extractInfo(schemas, blocks, docType, order)
    /\ values' = FieldValues(schemas, blocks, docType)
    /\ response' = responseOf(result', blocks)
    /\ UNCHANGED <<schemas, docType, blocks, passes, serverVars>>

\* the handler, from the return of the analysis call to its response
ExtractAndRespond ==
    /\ pc = "analyzed"
    /\ ExtractionPass
    /\ pc' = "done"

Next ==
    \/ RejectRequest
    \/ AnalyzeFailed
    \/ Analyze
    \/ ExtractAndRespond

Spec == Init /\ [][Next]_vars

-----------------------------------------------------------------------------
\* The process: main calls NewAWSService, ListenAndServe and Graceful

requestVars == <<pc, docType, blocks, values, result, response>>

\* the map of a service that has not been constructed
NoSchemas == [d \in {} |-> DocumentSchema(d, EmptyInfo)]

\* NewAWSService: loadSchemas reads the schema file into s.schemas
NewAWSService ==
    /\ main = "NewAWSService"
    /\ \E ss \in SchemaSets : schemas' = ss
    /\ main' = "ListenAndServe"
    /\ UNCHANGED <<requestVars, passes, config, healthy, ready, httpServer, server, stopCh>>

\* startServer: nil when the port is "0", the app otherwise
startServer(cfg) == IF cfg.Port = "0" THEN Nil ELSE Some("app")

\* ListenAndServe up to the return of startServer: unless the port is "0" the
\* goroutine that will call Listen is started
ListenAndServe ==
    /\ main = "ListenAndServe"
    /\ httpServer' = startServer(config)
    /\ server' = IF IsNil(startServer(config)) THEN server ELSE "starting"
    /\ main' = "SetHealthy"
    /\ UNCHANGED <<schemas, requestVars, passes, config, healthy, ready, stopCh>>

\* the goroutine of startServer: Listen binds the port and serves requests
Listen ==
    /\ server = "starting"
    /\ main # "fatal"
    /\ server' = "listening"
    /\ UNCHANGED <<schemas, requestVars, passes, config, healthy, ready, httpServer, stopCh, main>>

\* the goroutine of startServer: Listen returns an error and logger.Fatal ends
\* the process
ListenFatal ==
    /\ server = "starting"
    /\ main # "fatal"
    /\ server' = "crashed"
    /\ main' = "fatal"
    /\ UNCHANGED <<schemas, requestVars, passes, config, healthy, ready, httpServer, stopCh>>

\* ListenAndServe: atomic.StoreInt32(&healthy, 1) unless the configuration
\* marks the server unhealthy
ListenAndServeStoreHealthy ==
    /\ main = "SetHealthy"
    /\ healthy' = IF ~config.Unhealthy THEN 1 ELSE healthy
    /\ main' = "SetReady"
    /\ UNCHANGED <<schemas, requestVars, passes, config, ready, httpServer, server, stopCh>>

\* ListenAndServe: atomic.StoreInt32(&ready, 1) unless the configuration marks
\* the server unready, and the return to main, which calls Graceful
ListenAndServeStoreReady ==
    /\ main = "SetReady"
    /\ ready' = IF ~config.Unready THEN 1 ELSE ready
    /\ main' = "Graceful"
    /\ UNCHANGED <<schemas, requestVars, passes, config, healthy, httpServer, server, stopCh>>

\* the stop signal arrives while main waits in Graceful: the signal handler
\* closes the stop channel
StopSignal ==
    /\ main = "Graceful"
    /\ stopCh = "open"
    /\ stopCh' = "closed"
    /\ UNCHANGED <<schemas, requestVars, passes, config, healthy, ready, httpServer, server, main>>

\* Graceful going from the stop channel straight to the wait before the
\* shutdown of the server
GracefulReceive_skipStores ==
    /\ main = "Graceful"
    /\ stopCh = "closed"
    /\ main' = "Sleep"
    /\ UNCHANGED <<schemas, requestVars, passes, config, healthy, ready, httpServer, server, stopCh>>

\* Graceful: the receive from the stop channel returns
GracefulReceive ==
    /\ main = "Graceful"
    /\ stopCh = "closed"
    /\ main' = "StoreHealthy"
    /\ UNCHANGED <<schemas, requestVars, passes, config, healthy, ready, httpServer, server, stopCh>>

\* Graceful: atomic.StoreInt32(healthy, 0)
GracefulStoreHealthy ==
    /\ main = "StoreHealthy"
    /\ healthy' = 0
    /\ main' = "StoreReady"
    /\ UNCHANGED <<schemas, requestVars, passes, config, ready, httpServer, server, stopCh>>

\* Graceful: atomic.StoreInt32(ready, 0)
GracefulStoreReady ==
    /\ main = "StoreReady"
    /\ ready' = 0
    /\ main' = "Sleep"
    /\ UNCHANGED <<schemas, requestVars, passes, config, healthy, httpServer, server, stopCh>>

\* Graceful: the three seconds it waits unless the level is debug
GracefulSleep ==
    /\ main = "Sleep"
    /\ config.Level # "debug"
    /\ main' = "ShutdownServer"
    /\ UNCHANGED <<schemas, requestVars, passes, config, healthy, ready, httpServer, server, stopCh>>

\* Graceful: no wait at level debug
GracefulNoSleep ==
    /\ main = "Sleep"
    /\ config.Level = "debug"
    /\ main' = "ShutdownServer"
    /\ UNCHANGED <<schemas, requestVars, passes, config, healthy, ready, httpServer, server, stopCh>>

\* Graceful: ShutdownWithContext on the server, if one was started, and the
\* return to main, which ends
GracefulShutdownServer ==
    /\ main = "ShutdownServer"
    /\ server' = IF ~IsNil(httpServer) THEN "shutdown" ELSE server
    /\ main' = "exit"
    /\ UNCHANGED <<schemas, requestVars, passes, config, healthy, ready, httpServer, stopCh>>

\* main is about to call ListenAndServe, under any configuration
InitShutdown ==
    /\ schemas = SchemaSetA
    /\ pc = "idle"
    /\ docType = ""
    /\ blocks = <<>>
    /\ values = EmptyInfo
    /\ result = [info |-> Nil, err |-> NoError]
    /\ response = Nil
    /\ passes = [h \in Handlers |-> IdlePass]
    /\ config \in Configs
    /\ healthy = 0
    /\ ready = 0
    /\ httpServer = Nil
    /\ server = "none"
    /\ stopCh = "open"
    /\ main = "ListenAndServe"

NextShutdown ==
    \/ ListenAndServe
    \/ Listen
    \/ ListenFatal
    \/ ListenAndServeStoreHealthy
    \/ ListenAndServeStoreReady
    \/ StopSignal
    \/ GracefulReceive
    \/ GracefulStoreHealthy
    \/ GracefulStoreReady
    \/ GracefulSleep
    \/ GracefulNoSleep
    \/ GracefulShutdownServer

SpecShutdown == InitShutdown /\ [][NextShutdown]_vars

-----------------------------------------------------------------------------
\* Two handlers running extractInfo at once

\* The analysis results the two requests can bring.
ConcurrentDocuments ==
    { <<>>,
      <<Line(Some(S_k), Some("a")), Line(Some(S_v), Some("b"))>>,
      <<Line(Some(<<"k", ":", "\t", "v", ":", "w", "\n">>), Nil),
        Line(Some(S_v), Some("b")), Line(Some(S_k), Some("a"))>>,
      <<KeyValue(<<"KEY">>, Some(S_k),
                 <<Rel("CHILD", <<"c">>), Rel("VALUE", <<"x", "b">>)>>, Some("k1")),
        Line(Some(S_v), Some("b"))>>,
      <<Cell(Some(S_k), Some(1), Some(1)), Cell(Some(S_w), Some(1), Some(2))>>,
      <<KeyValue(<<"KEY">>, Some(S_k), <<Rel("VALUE", <<"c">>)>>, Some("k3")),
        KeyValue(<<"VALUE">>, Some(S_w), <<>>, Some("c")),
        Line(Some(S_k), Some("a")), Line(Some(S_u), Nil)>> }

NewReceiptParser(bs, schema) == [blocks |-> bs, schema |-> schema]

\* the handler has the analysis result and calls extractInfo
StartPass(h) ==
    /\ server = "listening"
    /\ main # "fatal"
    /\ passes[h].pc = "idle"
    /\ \E dt \in DocTypes, bs \in ConcurrentDocuments :
          passes' = [passes EXCEPT ![h] =
                        [IdlePass EXCEPT !.pc = "extractInfo", !.docType = dt, !.blocks = bs]]
    /\ UNCHANGED <<schemas, requestVars, serverVars>>

\* extractInfo: the lookup in s.schemas, then the error return or the parser
\* and the empty mapping of Parse
LookupSchema(h) ==
    /\ main # "fatal"
    /\ passes[h].pc = "extractInfo"
    /\ passes' = [passes EXCEPT ![h] =
          IF passes[h].docType \notin DOMAIN schemas
          THEN [@ EXCEPT !.pc = "returned",
                         !.result = [info |-> Nil, err |-> ErrSchemaNotFound]]
          ELSE [@ EXCEPT !.pc = "Parse",
                         !.parser = Some(NewReceiptParser(passes[h].blocks,
                                                          schemas[passes[h].docType])),
                         !.pending = DOMAIN schemas[passes[h].docType].Fields,
                         !.extractedInfo = EmptyInfo]]
    /\ UNCHANGED <<schemas, requestVars, serverVars>>

\* one iteration of Parse writing into a mapping that every parser in its
\* loop shares
ParseStep_sharedInfo(h) ==
    /\ main # "fatal"
    /\ passes[h].pc = "Parse"
    /\ \E field \in passes[h].pending :
          LET p == Deref(passes[h].parser)
              info == ParseField(p.blocks, p.schema, field, passes[h].extractedInfo)
          IN  passes' = [g \in Handlers |->
                  IF g = h
                  THEN [passes[g] EXCEPT !.pending = @ \ {field}, !.extractedInfo = info]
                  ELSE IF passes[g].pc = "Parse"
                  THEN [passes[g] EXCEPT !.extractedInfo = info]
                  ELSE passes[g]]
    /\ UNCHANGED <<schemas, requestVars, serverVars>>

\* one iteration of the range over p.schema.Fields, on any field not yet visited
ParseStep(h) ==
    /\ main # "fatal"
    /\ passes[h].pc = "Parse"
    /\ \E field \in passes[h].pending :
          LET p == Deref(passes[h].parser)
          IN  passes' = [passes EXCEPT ![h] =
                  [@ EXCEPT !.pending = @ \ {field},
                            !.extractedInfo = ParseField(p.blocks, p.schema, field,
                                                         passes[h].extractedInfo)]]
    /\ UNCHANGED <<schemas, requestVars, serverVars>>

\* Parse returns its mapping, extractInfo tests its size and returns
ReturnPass(h) ==
    /\ main # "fatal"
    /\ passes[h].pc = "Parse"
    /\ passes[h].pending = {}
    /\ passes' = [passes EXCEPT ![h] =
          [@ EXCEPT !.pc = "returned",
                    !.result = IF Cardinality(DOMAIN passes[h].extractedInfo) = 0
                               THEN [info |-> Nil, err |-> ErrNothingExtracted]
                               ELSE [info |-> Some(passes[h].extractedInfo),
                                     err |-> NoError]]]
    /\ UNCHANGED <<schemas, requestVars, serverVars>>

\* main is about to construct the service
InitConcurrent ==
    /\ schemas = NoSchemas
    /\ pc = "idle"
    /\ docType = ""
    /\ blocks = <<>>
    /\ values = EmptyInfo
    /\ result = [info |-> Nil, err |-> NoError]
    /\ response = Nil
    /\ passes = [h \in Handlers |-> IdlePass]
    /\ config = DefaultConfig
    /\ healthy = 0
    /\ ready = 0
    /\ httpServer = Nil
    /\ server = "none"
    /\ stopCh = "open"
    /\ main = "NewAWSService"

NextConcurrent ==
    \/ NewAWSService
    \/ ListenAndServe
    \/ Listen
    \/ ListenFatal
    \/ ListenAndServeStoreHealthy
    \/ ListenAndServeStoreReady
    \/ \E h \in Handlers : StartPass(h)
    \/ \E h \in Handlers : LookupSchema(h)
    \/ \E h \in Handlers : ParseStep(h)
    \/ \E h \in Handlers : ReturnPass(h)

SpecConcurrent == InitConcurrent /\ [][NextConcurrent]_vars

-----------------------------------------------------------------------------
\* What the properties below speak of

Min(S) == CHOOSE x \in S : \A y \in S : x <= y

Max(S) == CHOOSE x \in S : \A y \in S : y <= x

\* extractInfo has returned for the request
Extracted == pc = "done"

Registered == docType \in DOMAIN schemas

DeclaredFields == IF Registered THEN DOMAIN schemas[docType].Fields ELSE {}

\* the declared fields that name this strategy
FieldsOf(strategy) == { f \in DeclaredFields : schemas[docType].Fields[f].Strategy = strategy }

KeyOf(f) == schemas[docType].Fields[f].Key

HasText(b) == Len(b.Text) = 1

TextOf(b) == b.Text[1]

-----------------------------------------------------------------------------
\* C1: for every schema set and every block list, extractInfo called with a
\* document type that is not a key of the schema set fails with the
\* schema-not-found error and returns no mapping.
C1_SchemaNotFound ==
    (Extracted /\ ~Registered) =>
        /\ result.err = ErrSchemaNotFound
        /\ result.info = Nil
        /\ values = EmptyInfo

\* an unregistered document type met with a block list that is not empty
C1_Witness ==
    /\ Extracted
    /\ ~Registered
    /\ Len(blocks) > 0
    /\ result.err = ErrSchemaNotFound

\* C2: for a registered document type, extractInfo fails with the
\* nothing-extracted error exactly when every declared field's resolver returns
\* nothing, and otherwise returns the non-empty mapping; a block list with zero
\* blocks always yields the nothing-extracted error.
C2_NothingExtracted ==
    (Extracted /\ Registered) =>
        /\ result.err = ErrNothingExtracted <=> (\A f \in DeclaredFields : values[f] = EmptyString)
        /\ result.err = ErrNothingExtracted => result.info = Nil
        /\ result.err # ErrNothingExtracted =>
              /\ result.err = NoError
              /\ Len(result.info) = 1
              /\ DOMAIN result.info[1] # {}
        /\ Len(blocks) = 0 => result.err = ErrNothingExtracted

\* a registered document type and a block list with blocks, of which no field
\* resolves
C2_Witness ==
    /\ Extracted
    /\ Registered
    /\ Len(blocks) > 0
    /\ \A f \in DeclaredFields : values[f] = EmptyString
    /\ result.err = ErrNothingExtracted

\* C3: in every mapping returned, every key is a field name declared in the
\* schema, every value is a non-empty string equal to what the field's resolver
\* returned, and a field whose resolver returned nothing (the empty string
\* included) is absent from the mapping.
C3_MappingContents ==
    (Extracted /\ result.err = NoError) =>
        LET m == result.info[1]
        IN  /\ DOMAIN m \subseteq DeclaredFields
            /\ \A f \in DOMAIN m : m[f] # EmptyString /\ m[f] = values[f]
            /\ \A f \in DeclaredFields : values[f] = EmptyString => f \notin DOMAIN m

\* a mapping is returned while the same-line resolver of another field returned
\* the empty string it trimmed from a line that ends in a colon
C3_Witness ==
    /\ Extracted
    /\ result.err = NoError
    /\ \E f \in FieldsOf("sameLine") :
          /\ values[f] = EmptyString
          /\ f \notin DOMAIN result.info[1]
          /\ \E i \in 1..Len(blocks) :
                /\ blocks[i].BlockType = "LINE"
                /\ HasText(blocks[i])
                /\ Contains(TextOf(blocks[i]), KeyOf(f))
                /\ \E c \in 1..Len(TextOf(blocks[i])) : TextOf(blocks[i])[c] = ":"
    /\ \E g \in DOMAIN result.info[1] : result.info[1][g] # EmptyString

-----------------------------------------------------------------------------
\* KeyValueSet

\* a KEY_VALUE_SET block whose first entity type is KEY and whose text is key
IsKeyOf(b, key) ==
    /\ b.BlockType = "KEY_VALUE_SET"
    /\ b.EntityTypes # <<>>
    /\ Head(b.EntityTypes) = "KEY"
    /\ HasText(b)
    /\ TextOf(b) = key

\* the positions of the key blocks of key, in the block list of the request
KeyBlocks(key) == { i \in 1..Len(blocks) : IsKeyOf(blocks[i], key) }

\* the positions of the blocks that carry this id
WithId(id) == { n \in 1..Len(blocks) : Len(blocks[n].Id) = 1 /\ blocks[n].Id[1] = id }

\* the id resolves to a block, the first that carries it, and that block has text
TargetHasText(id) == WithId(id) # {} /\ HasText(blocks[Min(WithId(id))])

TargetText(id) == TextOf(blocks[Min(WithId(id))])

\* <<r, j>>: the j-th id of the r-th relationship of block i, for the VALUE
\* relationships whose id resolves to a block with text
YieldingTargets(i) ==
    LET rels == blocks[i].Relationships
    IN  { p \in UNION { { <<r, j>> : j \in 1..Len(rels[r].Ids) } : r \in 1..Len(rels) } :
            /\ rels[p[1]].Type = "VALUE"
            /\ TargetHasText(rels[p[1]].Ids[p[2]]) }

\* the first of a set of pairs, relationships before ids
FirstPair(S) ==
    CHOOSE p \in S : \A q \in S : p[1] < q[1] \/ (p[1] = q[1] /\ p[2] <= q[2])

\* the text block i yields through its VALUE relationships
YieldedText(i) ==
    LET p == FirstPair(YieldingTargets(i))
    IN  TargetText(blocks[i].Relationships[p[1]].Ids[p[2]])

\* C4: for the first key block whose text equals the anchor key, the resolver
\* walks the VALUE relationships and their target ids in order and returns the
\* text of the first target id that resolves to a block with text; target ids
\* that match no block or a block without text are skipped: they neither end
\* the walk nor keep the later ids from being returned.
C4_ValueRelationship ==
    Extracted =>
        \A f \in FieldsOf("keyValueSet") :
            LET K == KeyBlocks(KeyOf(f))
            IN  (K # {} /\ YieldingTargets(Min(K)) # {}) =>
                    values[f] = YieldedText(Min(K))

\* the first key block has a VALUE relationship whose first id matches no block
\* and whose second id resolves to a block with text, which is returned
C4_Witness ==
    /\ Extracted
    /\ \E f \in FieldsOf("keyValueSet") :
          LET K == KeyBlocks(KeyOf(f))
          IN  /\ K # {}
              /\ YieldingTargets(Min(K)) # {}
              /\ FirstPair(YieldingTargets(Min(K)))[2] > 1
              /\ \E r \in 1..Len(blocks[Min(K)].Relationships) :
                    /\ blocks[Min(K)].Relationships[r].Type = "VALUE"
                    /\ WithId(blocks[Min(K)].Relationships[r].Ids[1]) = {}
              /\ values[f] = YieldedText(Min(K))
              /\ values[f] # EmptyString

\* the block after position i is a LINE block with text
LineFollows(i) ==
    /\ i + 1 <= Len(blocks)
    /\ blocks[i + 1].BlockType = "LINE"
    /\ HasText(blocks[i + 1])

\* C5: when the matched key block has no VALUE relationship that yields a text,
\* the resolver returns the text of the block immediately following the key
\* block if and only if that block is of type LINE and has text, and nothing
\* otherwise.  Stated of the block lists with one key block of the anchor key,
\* where no other key block can supply the value.
C5_AdjacencyFallback ==
    Extracted =>
        \A f \in FieldsOf("keyValueSet") :
            LET K == KeyBlocks(KeyOf(f))
            IN  (Cardinality(K) = 1 /\ YieldingTargets(Min(K)) = {}) =>
                    values[f] = IF LineFollows(Min(K))
                                THEN TextOf(blocks[Min(K) + 1])
                                ELSE EmptyString

\* C6 as claimed: only the first key block whose text equals the anchor key is
\* used; when it yields no value the resolver returns nothing, even if a later
\* key block with the same text would yield one.
C6_FirstKeyOnly ==
    Extracted =>
        \A f \in FieldsOf("keyValueSet") :
            LET K == KeyBlocks(KeyOf(f))
            IN  /\ (K # {} /\ YieldingTargets(Min(K)) = {}) => values[f] = EmptyString
                /\ (K # {} /\ YieldingTargets(Min(K)) # {}) => values[f] = YieldedText(Min(K))

\* C6 as amended: the resolver returns the text yielded by the first key block,
\* in input order, whose text equals the anchor key and whose VALUE
\* relationships yield a text; key blocks that yield none are passed over, and
\* the resolver returns nothing only when no key block of that text yields one.
C6_FirstYieldingKey ==
    Extracted =>
        \A f \in FieldsOf("keyValueSet") :
            LET Y == { i \in KeyBlocks(KeyOf(f)) : YieldingTargets(i) # {} }
            IN  values[f] = IF Y = {} THEN EmptyString ELSE YieldedText(Min(Y))

\* the first key block yields nothing, a later one yields a text, and that text
\* is what the resolver returned
C6_Witness ==
    /\ Extracted
    /\ \E f \in FieldsOf("keyValueSet") :
          LET K == KeyBlocks(KeyOf(f))
              Y == { i \in K : YieldingTargets(i) # {} }
          IN  /\ Y # {}
              /\ Min(K) < Min(Y)
              /\ values[f] = YieldedText(Min(Y))
              /\ values[f] # EmptyString

-----------------------------------------------------------------------------
\* NextLine

\* the positions of the LINE blocks whose text equals key
Anchors(key) ==
    { i \in 1..Len(blocks) :
        blocks[i].BlockType = "LINE" /\ HasText(blocks[i]) /\ TextOf(blocks[i]) = key }

\* C7: when a LINE block's text equals the anchor key, the resolver returns the
\* text of the block at the next position only if that block exists, is of type
\* LINE and has text: the first anchor with such a follower gives the value, and
\* no value ever comes from an anchor that is the last block or is followed by
\* a block of another type or without text.
C7_NextLine ==
    Extracted =>
        \A f \in FieldsOf("nextLine") :
            LET A == Anchors(KeyOf(f))
            IN  /\ (A # {} /\ LineFollows(Min(A))) => values[f] = TextOf(blocks[Min(A) + 1])
                /\ values[f] # EmptyString =>
                      \E i \in A : LineFollows(i) /\ values[f] = TextOf(blocks[i + 1])
                /\ (\A i \in A : ~LineFollows(i)) => values[f] = EmptyString

\* the anchor is followed by a LINE block with text, which is returned, and the
\* block list ends in an anchor that has no follower
C7_Witness ==
    /\ Extracted
    /\ \E f \in FieldsOf("nextLine") :
          LET A == Anchors(KeyOf(f))
          IN  /\ A # {}
              /\ LineFollows(Min(A))
              /\ Len(blocks) \in A
              /\ values[f] = TextOf(blocks[Min(A) + 1])
              /\ values[f] # EmptyString

\* C8: NextLine stops at the first LINE block whose text equals the anchor key:
\* if that first match is not followed by a LINE block with text, the resolver
\* returns nothing, even when the anchor key recurs later with a valid follower.
C8_FirstAnchorOnly ==
    Extracted =>
        \A f \in FieldsOf("nextLine") :
            LET A == Anchors(KeyOf(f))
            IN  (A # {} /\ ~LineFollows(Min(A))) => values[f] = EmptyString

-----------------------------------------------------------------------------
\* SameLine

\* the positions of the LINE blocks whose text contains key
Containing(key) ==
    { i \in 1..Len(blocks) :
        /\ blocks[i].BlockType = "LINE"
        /\ HasText(blocks[i])
        /\ \E a \in 0..Len(TextOf(blocks[i])) :
              /\ a + Len(key) <= Len(TextOf(blocks[i]))
              /\ \A c \in 1..Len(key) : TextOf(blocks[i])[a + c] = key[c] }

Colons(t) == { c \in 1..Len(t) : t[c] = ":" }

\* t without the white space at its two ends
Trimmed(t) ==
    LET N == { c \in 1..Len(t) : t[c] \notin WhiteSpace }
    IN  IF N = {} THEN <<>> ELSE [ c \in 1..(Max(N) - Min(N) + 1) |-> t[Min(N) + c - 1] ]

\* the trimmed text after the first colon of t
AfterFirstColon(t) ==
    LET c == Min(Colons(t))
    IN  Trimmed([ n \in 1..(Len(t) - c) |-> t[c + n] ])

\* C9 as claimed: SameLine uses only the first LINE block whose text contains
\* the anchor key: it returns the trimmed text after that block's first colon,
\* and nothing if that block contains no colon or no LINE block contains the key.
C9_FirstContainingLine ==
    Extracted =>
        \A f \in FieldsOf("sameLine") :
            LET C == Containing(KeyOf(f))
            IN  values[f] = IF C = {} THEN EmptyString
                            ELSE IF Colons(TextOf(blocks[Min(C)])) = {} THEN EmptyString
                            ELSE AfterFirstColon(TextOf(blocks[Min(C)]))

\* C9 as amended: SameLine uses the first LINE block, in input order, whose text
\* contains the anchor key and contains a colon: it returns the trimmed text
\* after that block's first colon; LINE blocks that contain the key and no colon
\* are passed over, and the resolver returns nothing when no LINE block contains
\* both the key and a colon.
C9_FirstContainingLineWithColon ==
    Extracted =>
        \A f \in FieldsOf("sameLine") :
            LET C == { i \in Containing(KeyOf(f)) : Colons(TextOf(blocks[i])) # {} }
            IN  values[f] = IF C = {} THEN EmptyString
                            ELSE AfterFirstColon(TextOf(blocks[Min(C)]))

\* the first line that contains the key has no colon, a later one has, and the
\* trimmed rest of the later one is what the resolver returned
C9_Witness ==
    /\ Extracted
    /\ \E f \in FieldsOf("sameLine") :
          LET A == Containing(KeyOf(f))
              C == { i \in A : Colons(TextOf(blocks[i])) # {} }
          IN  /\ C # {}
              /\ Min(A) < Min(C)
              /\ values[f] = AfterFirstColon(TextOf(blocks[Min(C)]))
              /\ values[f] # EmptyString
              /\ Len(values[f]) < Len(TextOf(blocks[Min(C)])) - Min(Colons(TextOf(blocks[Min(C)])))

-----------------------------------------------------------------------------
\* Table

\* the positions of the CELL blocks with a row and a column index whose text
\* contains key
KeyCells(key) ==
    { i \in 1..Len(blocks) :
        /\ blocks[i].BlockType = "CELL"
        /\ HasText(blocks[i])
        /\ Contains(TextOf(blocks[i]), key)
        /\ Len(blocks[i].RowIndex) = 1
        /\ Len(blocks[i].ColumnIndex) = 1 }

\* the positions of the CELL blocks in the row of cell i, one column to its right
RightOf(i) ==
    { n \in 1..Len(blocks) :
        /\ blocks[n].BlockType = "CELL"
        /\ Len(blocks[n].RowIndex) = 1
        /\ Len(blocks[n].ColumnIndex) = 1
        /\ blocks[n].RowIndex[1] = blocks[i].RowIndex[1]
        /\ blocks[i].ColumnIndex[1] # MaxInt32
        /\ blocks[n].ColumnIndex[1] = blocks[i].ColumnIndex[1] + 1 }

\* C10 as claimed: Table uses the first CELL block whose text contains the
\* anchor key and which has a row and a column index: it returns the text of the
\* first CELL block in the list whose row is that row and whose column is that
\* column plus one (nothing when that block carries no text), and nothing if no
\* cell occupies that position.
C10_FirstAdjacentCell ==
    Extracted =>
        \A f \in FieldsOf("table") :
            LET K == KeyCells(KeyOf(f))
            IN  values[f] = IF K = {} THEN EmptyString
                            ELSE IF RightOf(Min(K)) = {} THEN EmptyString
                            ELSE IF HasText(blocks[Min(RightOf(Min(K)))])
                                 THEN TextOf(blocks[Min(RightOf(Min(K)))])
                                 ELSE EmptyString

\* C10 as amended: Table uses the first CELL block whose text contains the
\* anchor key and which has a row and a column index: it returns the text of the
\* first CELL block in the list that has text, whose row is that row and whose
\* column is that column plus one; cells at that position without text are
\* passed over, and the resolver returns nothing if no cell with text occupies
\* that position.  Cells in other rows or columns are never returned.
C10_FirstAdjacentCellWithText ==
    Extracted =>
        \A f \in FieldsOf("table") :
            LET K == KeyCells(KeyOf(f))
                R == IF K = {} THEN {} ELSE { n \in RightOf(Min(K)) : HasText(blocks[n]) }
            IN  values[f] = IF R = {} THEN EmptyString ELSE TextOf(blocks[Min(R)])

\* the key cell has, to its right, a cell without text and then a cell with
\* text, and the text of the latter is what the resolver returned
C10_Witness ==
    /\ Extracted
    /\ \E f \in FieldsOf("table") :
          LET K == KeyCells(KeyOf(f))
              R == IF K = {} THEN {} ELSE { n \in RightOf(Min(K)) : HasText(blocks[n]) }
          IN  /\ R # {}
              /\ Min(RightOf(Min(K))) < Min(R)
              /\ values[f] = TextOf(blocks[Min(R)])
              /\ values[f] # EmptyString

-----------------------------------------------------------------------------
\* Parse over the whole schema

\* the mapping Parse left, empty when extractInfo reported a failure
ParsedInfo == IF result.err = NoError THEN result.info[1] ELSE EmptyInfo

\* the entry of field f in mapping m: nil when absent
Entry(m, f) == IF f \in DOMAIN m THEN <<m[f]>> ELSE <<>>

\* the declared fields whose strategy is none of the four
UnknownFields ==
    { f \in DeclaredFields : schemas[docType].Fields[f].Strategy \notin
                               {"keyValueSet", "nextLine", "sameLine", "table"} }

\* C11: a field whose strategy name is not one of the four known strategies
\* resolves to nothing for that field only: Parse still processes every other
\* declared field, and the document fails only if no other field resolves.
C11_UnknownStrategy ==
    (Extracted /\ Registered) =>
        \A f \in UnknownFields :
            /\ values[f] = EmptyString
            /\ f \notin DOMAIN ParsedInfo
            /\ \A g \in DeclaredFields \ {f} :
                  values[g] # EmptyString =>
                      /\ result.err = NoError
                      /\ Entry(ParsedInfo, g) = <<values[g]>>
            /\ result.err = ErrNothingExtracted <=>
                  (\A g \in DeclaredFields \ {f} : values[g] = EmptyString)

\* a schema with a field of unknown strategy, of which another field resolved:
\* the mapping is returned without the unknown field
C11_Witness ==
    /\ Extracted
    /\ Registered
    /\ UnknownFields # {}
    /\ result.err = NoError
    /\ \E g \in DeclaredFields \ UnknownFields : Entry(ParsedInfo, g) = <<values[g]>>
    /\ \A f \in UnknownFields : f \notin DOMAIN ParsedInfo

\* the schema of the request cut down to the fields of S
SubSchema(S) ==
    DocumentSchema(docType, [ g \in S |-> schemas[docType].Fields[g] ])

\* the field declarations a schema can be given in addition
ExtraStrategies ==
    { FieldStrategy(S_k, st) : st \in {"keyValueSet", "nextLine", "regex"} }

\* the schema with field f alone and one more field, "extra", declared as e
WithExtra(f, e) ==
    DocumentSchema(docType,
        [ g \in {f, "extra"} |-> IF g = f THEN schemas[docType].Fields[f] ELSE e ])

\* C12: field independence: for a fixed block list, the value or the absence of
\* a field in the output of Parse depends only on that field's own anchor key
\* and strategy: it is the same under the schema that declares the field
\* alone, under every schema obtained by removing one other field, and under
\* every schema that declares one more field.
C12_FieldIndependence ==
    (Extracted /\ Registered) =>
        /\ \A f \in DeclaredFields :
              Entry(Parse(blocks, SubSchema({f}), <<f>>), f) = Entry(ParsedInfo, f)
        /\ \A g \in DeclaredFields :
              \A order \in IterationOrders(DeclaredFields \ {g}) :
                  LET m == Parse(blocks, SubSchema(DeclaredFields \ {g}), order)
                  IN  \A f \in DeclaredFields \ {g} : Entry(m, f) = Entry(ParsedInfo, f)
        /\ \A f \in DeclaredFields :
              \A e \in ExtraStrategies :
                  \A order \in IterationOrders({f, "extra"}) :
                      Entry(Parse(blocks, WithExtra(f, e), order), f) = Entry(ParsedInfo, f)

\* two fields of the schema resolved on the same block list, and each has in
\* the schema that declares it alone the value it has in the whole schema
C12_Witness ==
    /\ Extracted
    /\ Registered
    /\ Cardinality(DOMAIN ParsedInfo) >= 2
    /\ \A f \in DOMAIN ParsedInfo :
          Entry(Parse(blocks, SubSchema({f}), <<f>>), f) = <<ParsedInfo[f]>>

\* C14: the mapping returned is the same for every order in which the schema's
\* fields are iterated: the outcome of the pass, got under one order, is the
\* outcome extractInfo has under each of the others.
C14_OrderIrrelevant ==
    (Extracted /\ Registered) =>
        \A order \in IterationOrders(DeclaredFields) :
            extractInfo(schemas, blocks, docType, order) = result

\* a schema of three fields, six orders, of which one field resolved and
\* another did not
C14_Witness ==
    /\ Extracted
    /\ Registered
    /\ Cardinality(IterationOrders(DeclaredFields)) >= 6
    /\ result.err = NoError
    /\ \E f \in DeclaredFields : f \in DOMAIN ParsedInfo
    /\ \E f \in DeclaredFields : f \notin DOMAIN ParsedInfo

-----------------------------------------------------------------------------
\* The response

\* C16: when extraction fails (unknown document type or nothing extracted) the
\* handler's failure response carries the raw analysis result, so the original
\* block list stays retrievable; a successful response carries only the
\* extracted mapping.
C16_FailureCarriesRawResult ==
    Extracted =>
        /\ Len(response) = 1
        /\ result.err \in {ErrSchemaNotFound, ErrNothingExtracted} =>
              /\ response[1].Status = 500
              /\ response[1].Success = FALSE
              /\ response[1].Data.kind = "rawResult"
              /\ response[1].Data.rawResult = blocks
        /\ result.err = NoError =>
              /\ response[1].Status = 200
              /\ response[1].Success = TRUE
              /\ response[1].Data.kind = "extractedInfo"
              /\ response[1].Data.extractedInfo = result.info[1]
              /\ response[1].Data.rawResult = <<>>

\* nothing was extracted from a block list with blocks, and the response
\* carries that block list
C16_Witness ==
    /\ Extracted
    /\ result.err = ErrNothingExtracted
    /\ Len(blocks) > 0
    /\ response[1].Data.kind = "rawResult"
    /\ response[1].Data.rawResult = blocks

\* C17: graceful shutdown ordering.  The healthy and ready flags go to 1 only in
\* ListenAndServe, and only when the configuration does not mark the server
\* unhealthy or unready; the shutdown of the HTTP server is invoked only after
\* the stop signal, with both flags at 0 and a server that was started; after
\* the stop signal is received no step raises a flag; with port "0" no server
\* is started and none is shut down; main ends with both flags at 0.
C17_ShutdownOrdering ==
    [][ /\ (healthy' = 1 /\ healthy # 1) => (main = "SetHealthy" /\ ~config.Unhealthy)
        /\ (ready' = 1 /\ ready # 1) => (main = "SetReady" /\ ~config.Unready)
        /\ (server' = "shutdown" /\ server # "shutdown") =>
               /\ stopCh = "closed"
               /\ healthy = 0
               /\ ready = 0
               /\ ~IsNil(httpServer)
               /\ main = "ShutdownServer"
        /\ (stopCh = "closed" /\ main # "Graceful") => (healthy' <= healthy /\ ready' <= ready)
        /\ config.Port = "0" => (IsNil(httpServer') /\ server' = "none")
        /\ main' = "exit" => (healthy' = 0 /\ ready' = 0)
      ]_vars

\* main ended after a server that was started healthy and ready was shut down
C17_Witness ==
    /\ main = "exit"
    /\ server = "shutdown"
    /\ ~config.Unhealthy
    /\ ~config.Unready
    /\ config.Port # "0"
    /\ healthy = 0
    /\ ready = 0

-----------------------------------------------------------------------------
\* the outcomes extractInfo has when it runs alone on the document of pass p
AloneOutcomes(ss, p) ==
    { extractInfo(ss, p.blocks, p.docType, order) : order \in OrdersOf(ss, p.docType) }

\* C15: concurrent extraction passes share only the schema set, which is
\* written once, by the construction of the service, and never afterwards; a
\* step of one pass changes nothing of the other pass; and under every
\* interleaving each pass returns the outcome it returns when run alone, and
\* leaves its loop with the mapping Parse builds alone.
C15_ConcurrentPasses ==
    [][ /\ schemas' # schemas => (main = "NewAWSService" /\ schemas = NoSchemas)
        /\ \A h, g \in Handlers : (g # h /\ passes'[h] # passes[h]) => passes'[g] = passes[g]
        /\ \A h \in Handlers :
              /\ passes'[h].pc = "returned" =>
                    AloneOutcomes(schemas', passes'[h]) = {passes'[h].result}
              /\ (passes'[h].pc = "Parse" /\ passes'[h].pending = {}) =>
                    \A order \in OrdersOf(schemas', passes'[h].docType) :
                        passes'[h].extractedInfo =
                            Parse(passes'[h].blocks, schemas'[passes'[h].docType], order)
      ]_vars

\* both passes returned, for different documents of different types, each with
\* a mapping of its own
C15_Witness ==
    /\ \A h \in Handlers : passes[h].pc = "returned" /\ passes[h].result.err = NoError
    /\ passes["h1"].blocks # passes["h2"].blocks
    /\ passes["h1"].docType # passes["h2"].docType
    /\ passes["h1"].result # passes["h2"].result

====
